---- MODULE Spec2Model ----
(***************************************************************************)
(* Model of src/index.js: the publish-nuget action.  `new Action().run()`  *)
(* reads the inputs, registers the NuGet source, resolves the version,     *)
(* asks the registry whether that version exists and, from the HTTP        *)
(* callback, builds, packs, pushes and tags.                               *)
(*                                                                         *)
(* A JavaScript string is a sequence of atoms (TLA+ strings); " " is the   *)
(* one atom that holds a space, so `cmd.split(' ')` is computed, not       *)
(* assumed.  Everything the program does to the outside (log lines,        *)
(* spawned commands, unlinked files, ::set-output lines) is appended, in   *)
(* program order, to `events`.                                             *)
(***************************************************************************)
EXTENDS Integers, Sequences, FiniteSets, TLC

VARIABLES inp, world, sources, pc, sourceName, sourceType, version,
          packageName, request, response, events, thrown

vars == <<inp, world, sources, pc, sourceName, sourceType, version,
          packageName, request, response, events, thrown>>

\* ------------------------------------------------------------------ bounds

\* How many .nupkg files `dotnet pack` may leave in the working directory.
MaxPackages == 2
\* How many versions of the package the registry may hold.
MaxVersions == 2

\* ------------------------------------------------------- strings and values

SP == " "

E == <<>>

Undefined == [tag |-> "undefined", s |-> E]

Str(x) == [tag |-> "string", s |-> x]

\* `${v}` in a template literal.
Interp(v) == IF v.tag = "undefined" THEN <<"undefined">> ELSE v.s

\* !!v
Truthy(v) == v.tag = "string" /\ v.s # E

StartsWith(s, p) == Len(s) >= Len(p) /\ SubSeq(s, 1, Len(p)) = p

EndsWith(s, p) == Len(s) >= Len(p) /\ SubSeq(s, Len(s) - Len(p) + 1, Len(s)) = p

\* s.includes(p)
Includes(s, p) == \E i \in 0..(Len(s) - Len(p)) : SubSeq(s, i + 1, i + Len(p)) = p

\* The least i with p at s[i+1..]; -1 when there is none.
Find(s, p) ==
  IF Includes(s, p)
  THEN CHOOSE i \in 0..(Len(s) - Len(p)) :
         /\ SubSeq(s, i + 1, i + Len(p)) = p
         /\ \A j \in 0..(i - 1) : SubSeq(s, j + 1, j + Len(p)) # p
  ELSE -1

\* s.replace(p, r) with a string pattern: the first occurrence only.
ReplaceFirst(s, p, r) ==
  LET i == Find(s, p)
  IN  IF i < 0 THEN s
      ELSE SubSeq(s, 1, i) \o r \o SubSeq(s, i + Len(p) + 1, Len(s))

\* s.split(sep): every separator cuts, so two in a row give an empty piece.
RECURSIVE SplitFrom(_, _, _, _)
SplitFrom(s, sep, i, cur) ==
  IF i > Len(s) THEN <<cur>>
  ELSE IF s[i] = sep THEN <<cur>> \o SplitFrom(s, sep, i + 1, E)
  ELSE SplitFrom(s, sep, i + 1, Append(cur, s[i]))

Split(s, sep) == SplitFrom(s, sep, 1, E)

\* pieces.join(sep)
RECURSIVE Join(_, _)
Join(pieces, sep) ==
  IF pieces = E THEN E
  ELSE IF Len(pieces) = 1 THEN pieces[1]
  ELSE pieces[1] \o <<sep>> \o Join(Tail(pieces), sep)

\* s.toLowerCase(), atom by atom.
LowerAtom(a) ==
  CASE a = "MyLib" -> "mylib"
    [] a = "Pkg" -> "pkg"
    [] a = "OWNER" -> "owner"
    [] OTHER -> a

Lower(s) == [i \in 1..Len(s) |-> LowerAtom(s[i])]

\* array.indexOf(x) of JavaScript, 0-based; -1 when absent.  An undefined x
\* equals no string of the list.
IndexOf(list, v) ==
  IF v.tag = "string" /\ \E i \in 1..Len(list) : list[i] = v.s
  THEN (CHOOSE i \in 1..Len(list) :
          list[i] = v.s /\ \A j \in 1..(i - 1) : list[j] # v.s) - 1
  ELSE -1

\* ------------------------------------------------------------------ events

Log(level, msg) == [k |-> level, a |-> <<msg>>, ok |-> TRUE]

Info(msg) == Log("info", msg)

Warning(msg) == Log("warning", <<"sad: ">> \o msg)

\* process.stdout.write(`::set-output name=${name}::${value}` + os.EOL)
SetOutput(name, value) == [k |-> "output", a |-> <<<<name>>, value>>, ok |-> TRUE]

Unlink(fn) == [k |-> "unlink", a |-> <<fn>>, ok |-> TRUE]

\* _executeCommand: log the command, split it on spaces, spawn TOOL with ARGS.
\* `ok` is the exit status the spawned process ends with; spawnSync returns it
\* and never throws on it.
ExecuteCommand(cmd, ok) ==
  LET INPUT == Split(cmd, SP)
  IN  << Info(<<"executing: [">> \o cmd \o <<"]">>),
         [k |-> "exec", a |-> INPUT, ok |-> ok] >>

\* _executeInProcess: the same, with the child's stdio inherited and the result
\* dropped.
ExecuteInProcess(cmd, ok) == ExecuteCommand(cmd, ok)

\* throw new Error(msg): the event that ends the list of a handler's events.
Throw(msg) == [k |-> "throw", a |-> <<msg>>, ok |-> FALSE]

\* Whether a list of events ends in a throw, and the error thrown.
Threw(ev) == ev # E /\ ev[Len(ev)].k = "throw"

ThrownOf(ev) == IF Threw(ev) THEN Str(ev[Len(ev)].a[1]) ELSE Undefined

\* The error reported the way _printError reports it under ERROR_CONTINUE.
PrintErrorAndExit_Warns(msg) == << Warning(msg) >>

\* _printErrorAndExit
PrintErrorAndExit(msg) == << Log("error", <<"cry: ">> \o msg), Throw(msg) >>

\* _printError: a warning when ERROR_CONTINUE is set, else an error and a throw.
PrintError(errorContinue, msg) ==
  IF errorContinue
  THEN << Warning(msg) >>
  ELSE << Log("error", <<"cry: ">> \o msg), Throw(msg) >>

\* ------------------------------------------------------------------ inputs

NugetOrg == <<"https://", "api.", "nuget.org">>

GprHost == <<"https://", "nuget.pkg.github.com">>

\* NUGET_SOURCE: the public registry, a GitHub Packages feed, a private feed.
SourceUrls == { NugetOrg, GprHost \o <<"/", "OWNER">>, <<"https://", "feed.example">> }

ProjectPath == <<"src", "/", "MyLib", ".", "csproj">>

VersionPath == <<"version", ".", "txt">>

\* The inputs that only shape the publisher's command lines, varied together:
\* a plain build, and one with symbols, a name of its own, a signature and no
\* build step.
Extras ==
  { [packageName |-> E, includeSymbols |-> FALSE, noBuild |-> FALSE, signingCert |-> E],
    [packageName |-> <<"Pkg">>, includeSymbols |-> TRUE, noBuild |-> TRUE,
     signingCert |-> <<"cert", ".", "pfx">>] }

\* Where the version comes from: given, read from the project file, read from
\* a file of its own.  (With a version given, the version file is not read.)
VersionSources ==
  { [versionStatic |-> <<"1", ".0.0">>, versionFile |-> E],
    [versionStatic |-> E, versionFile |-> E],
    [versionStatic |-> E, versionFile |-> VersionPath] }

\* What the action's caller may configure (core.getInput of each name).
Inputs ==
  { [ projectFile    |-> pf,
      packageName    |-> x.packageName,
      versionFile    |-> v.versionFile,
      versionStatic  |-> v.versionStatic,
      tagCommit      |-> tc,
      tagFormat      |-> <<"v", "*">>,
      nugetKey       |-> key,
      nugetSource    |-> src,
      includeSymbols |-> x.includeSymbols,
      errorContinue  |-> ec,
      noBuild        |-> x.noBuild,
      signingCert    |-> x.signingCert,
      githubUser     |-> <<"actor">> ] :
      pf \in {E, ProjectPath}, v \in VersionSources,
      tc \in BOOLEAN, key \in {E, <<"KEY">>}, src \in SourceUrls,
      ec \in BOOLEAN, x \in Extras }

\* What versionRegex.exec(versionFileContent) may return: null, a match
\* whose group 1 is undefined (a pattern without a group), a match whose group 1
\* is empty, a match whose group 1 is a version.
ParsedResults ==
  { [matched |-> FALSE, g1 |-> Undefined],
    [matched |-> TRUE, g1 |-> Undefined],
    [matched |-> TRUE, g1 |-> Str(E)],
    [matched |-> TRUE, g1 |-> Str(<<"2", ".0.0">>)] }

\* The files and the file content the run finds.
Worlds ==
  [ projectExists     : BOOLEAN,
    versionFileExists : BOOLEAN,
    parsed            : ParsedResults,
    stale             : {E, << <<"Old", ".", "nupkg">> >>} ]

\* A world is told apart only by what the run reads of it: a path that is
\* not given does not exist, the version file is looked at only when no version
\* is given, its content only when it can be read.  A stale artifact lies in
\* the working directory in the runs that skip the build.
Observable(i, w) ==
  LET readsFile == i.projectFile # E /\ w.projectExists /\ i.versionStatic = E
  IN  /\ (i.projectFile = E => ~w.projectExists)
      /\ (~(readsFile /\ i.versionFile # E) => w.versionFileExists)
      /\ (~(readsFile /\ w.versionFileExists) => ~w.parsed.matched)
      /\ (w.stale # E <=> i.noBuild)

\* The URL under which `dotnet nuget add source` registers the feed.
RegisteredUrl(nugetSource) ==
  IF StartsWith(nugetSource, GprHost)
  THEN nugetSource \o <<"/index.json">>
  ELSE nugetSource \o <<"/v3/index.json">>

NoRequest == [sent |-> FALSE, url |-> E, auth |-> E, userAgent |-> FALSE]

NoResponse == [kind |-> "none", status |-> "", message |-> E, bodyOk |-> TRUE, versions |-> E]

Init ==
  /\ inp \in Inputs
  /\ world \in Worlds
  /\ Observable(inp, world)
  /\ sources \in { {}, {RegisteredUrl(inp.nugetSource)} }
  /\ pc = "ctor"
  /\ sourceName = Undefined
  /\ sourceType = "undefined"
  /\ version = Undefined
  /\ packageName = Undefined
  /\ request = NoRequest
  /\ response = NoResponse
  /\ events = E
  /\ thrown = Undefined

\* ------------------------------------------------------------- constructor

Words(ws) == Join([i \in 1..Len(ws) |-> <<ws[i]>>], SP)

\* existingSources.includes(this.nugetSource): the listing prints every
\* registered source's URL.
ListingIncludes(registered, nugetSource) ==
  \E r \in registered : Includes(r, nugetSource)

SourceNameOf(nugetSource) ==
  IF StartsWith(nugetSource, NugetOrg) THEN <<"nuget.org">> ELSE nugetSource

\* The kind the constructor's `add source` branch assigns.
ClassifySource(nugetSource) ==
  IF StartsWith(nugetSource, GprHost) THEN "GPR" ELSE "NuGet"

\* this.sourceType after the constructor: assigned only on the branch that
\* registers the source.
SourceTypeAfterCtor(registered, nugetSource) ==
  IF ~ListingIncludes(registered, nugetSource)
  THEN ClassifySource(nugetSource)
  ELSE "undefined"

AddSourceCmd(i, name) ==
  IF ClassifySource(i.nugetSource) = "GPR"
  THEN Words(<<"dotnet", "nuget", "add", "source">>) \o <<SP>> \o i.nugetSource
         \o <<"/index.json", SP, "--name=">> \o name \o <<SP, "-u=">> \o i.githubUser
         \o <<SP, "-p=">> \o i.nugetKey \o <<SP, "--store-password-in-clear-text">>
  ELSE Words(<<"dotnet", "nuget", "add", "source">>) \o <<SP>> \o i.nugetSource
         \o <<"/v3/index.json", SP, "--name=">> \o name

ListSourceCmd == Words(<<"dotnet", "nuget", "list", "source">>)

Constructor ==
  /\ pc = "ctor"
  /\ \E addOk \in BOOLEAN :
       LET name   == SourceNameOf(inp.nugetSource)
           listed == ListingIncludes(sources, inp.nugetSource)
           after  == IF ~listed /\ addOk
                     THEN sources \cup {RegisteredUrl(inp.nugetSource)}
                     ELSE sources
       IN  /\ (listed => addOk)
           /\ sourceName' = Str(name)
           /\ sourceType' = SourceTypeAfterCtor(sources, inp.nugetSource)
           /\ sources' = after
           /\ events' = events
                \o ExecuteCommand(ListSourceCmd, TRUE)
                \o (IF ~listed
                    THEN ExecuteCommand(AddSourceCmd(inp, name), addOk)
                           \o <<Info(IF addOk THEN <<"added">> ELSE E)>>
                    ELSE <<Info(inp.nugetSource \o <<" is already in sources.">>)>>)
                \o ExecuteCommand(ListSourceCmd, TRUE)
                \o ExecuteCommand(Words(<<"dotnet", "nuget", "enable", "source">>)
                                    \o <<SP>> \o name, after # {})
                \o <<Info(<<"list">>), Info(<<"enable">>)>>
  /\ version' = Str(inp.versionStatic)
  /\ packageName' = Str(inp.packageName)
  /\ pc' = "run"
  /\ UNCHANGED <<inp, world, request, response, thrown>>

\* --------------------------------------------------------------------- run

\* this.versionFile = core.getInput('VERSION_FILE_PATH') || this.projectFile
VersionFileOf(i) == IF i.versionFile # E THEN i.versionFile ELSE i.projectFile

\* fs.existsSync(path)
ExistsSync(w, i, path) ==
  IF path = i.projectFile THEN w.projectExists ELSE w.versionFileExists

\* _validateInputs
ValidateInputs(i, v) ==
  IF Truthy(v) /\ VersionFileOf(i) # E
  THEN <<Info(<<"You provided 'version', extract-* keys are being ignored">>)>>
  ELSE E

\* run() up to the call of _checkForUpdate: the project file check and the
\* version's resolution.  [ev, version]; a throw ends ev.
ResolveVersion(i, w, v) ==
  LET vf  == VersionFileOf(i)
      pre == ValidateInputs(i, v)
      hdr == pre \o << Info(<<"Project Filepath: ">> \o i.projectFile),
                       Log("debug", <<"Version (pre): '">> \o Interp(v) \o <<"'">>) >>
      rd  == hdr \o << Info(<<"Version Filepath: ">> \o vf),
                       Info(<<"Version Regex">>) >>
  IN  IF i.projectFile = E \/ ~ExistsSync(w, i, i.projectFile)
      THEN [ev |-> pre \o PrintErrorAndExit(<<"Project file '">> \o i.projectFile
                                              \o <<"' not found">>),
            version |-> v]
      ELSE IF Truthy(v)
      THEN [ev |-> hdr \o <<Info(<<"Version: ">> \o Interp(v))>>, version |-> v]
      ELSE IF vf # i.projectFile /\ ~ExistsSync(w, i, vf)
      THEN [ev |-> hdr \o PrintErrorAndExit(<<"version file not found">>), version |-> v]
      ELSE IF ~w.parsed.matched
      THEN [ev |-> rd \o PrintErrorAndExit(<<"unable to extract version info!">>),
            version |-> v]
      ELSE [ev |-> rd \o <<Info(<<"Version: ">> \o Interp(w.parsed.g1))>>,
            version |-> w.parsed.g1]

\* path.basename(p)
BaseName(p) == LET parts == Split(p, "/") IN parts[Len(parts)]

\* path.basename(projectFile).split('.').slice(0, -1).join('.')
DefaultPackageName(projectFile) ==
  LET parts == Split(BaseName(projectFile), ".")
  IN  Join(SubSeq(parts, 1, Len(parts) - 1), ".")

\* The URL and the options _checkForUpdate hands to https.get.
VersionCheckRequest(i, st, name) ==
  IF st = "GPR"
  THEN [sent |-> TRUE,
        url |-> Lower(i.nugetSource \o <<"/download/">> \o name \o <<"/index.json">>),
        auth |-> i.githubUser \o <<":">> \o i.nugetKey,
        userAgent |-> FALSE]
  ELSE [sent |-> TRUE,
        url |-> Lower(i.nugetSource \o <<"/v3-flatcontainer/">> \o name \o <<"/index.json">>),
        auth |-> E,
        userAgent |-> TRUE]

\* _checkForUpdate up to https.get.  [ev, packageName, request].
CheckForUpdate(i, st, pkg) ==
  LET name == IF ~Truthy(pkg) THEN DefaultPackageName(i.projectFile) ELSE pkg.s
      req  == VersionCheckRequest(i, st, name)
  IN  [ev |-> << Info(<<"Package Name: ">> \o name) >>
                \o (IF st = "GPR"
                    THEN <<Info(<<"This is GPR, changing url for versioning...">>)>>
                    ELSE E)
                \o << Info(<<"Url of checking Version: ">> \o req.url) >>,
       packageName |-> Str(name),
       request |-> req]

Run ==
  /\ pc = "run"
  /\ \E r \in {ResolveVersion(inp, world, version)} :
       IF Threw(r.ev)
       THEN /\ events' = events \o r.ev
            /\ thrown' = ThrownOf(r.ev)
            /\ pc' = "crashed"
            /\ UNCHANGED <<version, packageName, request>>
       ELSE \E c \in {CheckForUpdate(inp, sourceType, packageName)} :
              /\ events' = events \o r.ev \o c.ev
              /\ version' = r.version
              /\ packageName' = c.packageName
              /\ request' = c.request
              /\ pc' = "waiting"
              /\ UNCHANGED thrown
  /\ UNCHANGED <<inp, world, sources, sourceName, sourceType, response>>

\* ---------------------------------------------------------------- registry

\* The k-th version the registry may hold.
VersionString(k) == <<ToString(k), ".0.0">>

\* The registry lists the versions it holds in ascending order.
RECURSIVE Ascending(_, _)
Ascending(k, held) ==
  IF k > MaxVersions THEN E
  ELSE (IF k \in held THEN <<VersionString(k)>> ELSE E) \o Ascending(k + 1, held)

VersionLists == { Ascending(1, held) : held \in SUBSET (1..MaxVersions) }

\* What may come back for the one GET: a status line with, for 200, a body
\* (JSON with a `versions` array, or text JSON.parse rejects), or a
\* transport error.
Responses ==
  { [kind |-> "response", status |-> "200", message |-> <<"OK">>,
     bodyOk |-> TRUE, versions |-> vs] : vs \in VersionLists }
  \cup
  { [kind |-> "response", status |-> "200", message |-> <<"OK">>,
     bodyOk |-> FALSE, versions |-> E],
    [kind |-> "response", status |-> "404", message |-> <<"Not Found">>,
     bodyOk |-> TRUE, versions |-> E],
    [kind |-> "response", status |-> "500", message |-> <<"Internal Server Error">>,
     bodyOk |-> TRUE, versions |-> E],
    [kind |-> "error", status |-> "", message |-> <<"getaddrinfo ENOTFOUND">>,
     bodyOk |-> TRUE, versions |-> E] }

\* The registry, or the network, settles the request.
RegistryAnswers ==
  /\ pc = "waiting"
  /\ response.kind = "none"
  /\ response' \in Responses
  /\ UNCHANGED <<inp, world, sources, pc, sourceName, sourceType, version,
                 packageName, request, events, thrown>>

\* --------------------------------------------------------------- publisher

Cwd == <<"/work", "/">>

\* path.resolve(fn)
Resolve(fn) == Cwd \o fn

Nupkg(k) == <<"Lib", ToString(k), ".", "nupkg">>

Snupkg(k) == <<"Lib", ToString(k), ".", "s", "nupkg">>

\* Directory listings `dotnet pack` may leave, in readdirSync's order: n
\* packages, those in `syms` with their symbol package.
RECURSIVE Listing(_, _, _)
Listing(k, n, syms) ==
  IF k > n THEN E
  ELSE <<Nupkg(k)>> \o (IF k \in syms THEN <<Snupkg(k)>> ELSE E)
         \o Listing(k + 1, n, syms)

\* The pack writes a symbol package beside every package, or beside none.
Listings == { Listing(1, n, syms) : n \in 0..MaxPackages, syms \in {{}, 1..MaxPackages} }

\* stdout of `dotnet nuget push`, line by line.
PushOk == << <<"Pushing ", "package">>, <<"Your package was pushed.">> >>

PushFailed == << <<"Pushing ", "package">>,
                 <<"warn : ", "error", ": Response status code 403">>,
                 <<"error", ": second line">> >>

PushOutputs == { PushOk, PushFailed }

\* What the spawned tools do in one run of the publisher.
\* What the spawned tools do in one run of the publisher: the files the pack
\* leaves, what each push prints, how the two git commands exit.  The exit
\* status of build, pack and sign is read nowhere.
Outcomes ==
  [ files : Listings, pushOut : [1..MaxPackages -> PushOutputs],
    tagOk : BOOLEAN, tagPushOk : BOOLEAN ]

\* The outcome of a run in which the publisher does not get to its tools.
NoOutcome ==
  [ files |-> E, pushOut |-> [k \in 1..MaxPackages |-> PushOk],
    tagOk |-> TRUE, tagPushOk |-> TRUE ]

\* /\.s?nupkg$/.test(fn)
IsArtifact(fn) == EndsWith(fn, <<".", "nupkg">>) \/ EndsWith(fn, <<".", "s", "nupkg">>)

\* fn.endsWith('nupkg')
EndsNupkg(fn) == EndsWith(fn, <<"nupkg">>)

\* p.endsWith('.nupkg')
EndsDotNupkg(fn) == EndsWith(fn, <<".", "nupkg">>)

\* /error/.test(pushOutput)
HasError(out) == \E l \in 1..Len(out) : Includes(out[l], <<"error">>)

\* /error.*/.exec(pushOutput)[0]: from the first "error" to the end of its line.
FirstError(out) ==
  LET l    == CHOOSE l \in 1..Len(out) :
                /\ Includes(out[l], <<"error">>)
                /\ \A m \in 1..(l - 1) : ~Includes(out[m], <<"error">>)
      line == out[l]
  IN  SubSeq(line, Find(line, <<"error">>) + 1, Len(line))

\* _generatePackArgs
GeneratePackArgs(i, v) ==
  Words(<<"--no-build", "-c", "Release">>) \o <<SP, "-p:PackageVersion=">> \o Interp(v)
    \o <<SP>>
    \o (IF i.includeSymbols
        THEN Words(<<"--include-symbols", "-p:SymbolPackageFormat=snupkg">>)
        ELSE E)
    \o <<SP>> \o Words(<<"--no-build", "-c", "Release">>)

\* The push command of one package (lines 128-130).
PushCmd(i, st, name, nupkg) ==
  Words(<<"dotnet", "nuget", "push">>) \o <<SP>> \o nupkg \o <<SP, "-s", SP>>
    \o Interp(name) \o <<SP>>
    \o (IF st # "GPR" THEN <<"-k", SP>> \o i.nugetKey ELSE E)
    \o <<"--skip-duplicate">>
    \o (IF ~i.includeSymbols THEN <<SP, "-n">> ELSE E)

SignCmd(i, nupkg) ==
  Words(<<"dotnet", "nuget", "sign">>) \o <<SP>> \o nupkg \o <<SP, "-CertificatePath", SP>>
    \o i.signingCert \o <<SP, "-Timestamper", SP, "http://timestamp.digicert.com">>

\* The body of the forEach over the .nupkg files, for packages[k..]: sign,
\* push, scan the output, emit the outputs.  A throw ends the loop.
RECURSIVE PushEach(_, _, _, _, _, _, _)
PushEach(i, st, name, nupkgs, k, files, o) ==
  IF k > Len(nupkgs) THEN E
  ELSE
    LET nupkg  == nupkgs[k]
        out    == o.pushOut[k]
        sign   == IF i.signingCert # E
                  THEN ExecuteInProcess(SignCmd(i, nupkg), TRUE) ELSE E
        push   == ExecuteCommand(PushCmd(i, st, name, nupkg), ~HasError(out))
                    \o <<Info(Join(out, "\n"))>>
        sym    == ReplaceFirst(nupkg, <<".", "nupkg">>, <<".", "s", "nupkg">>)
        exists == \E f \in 1..Len(files) : files[f] = sym
        outs   == << SetOutput("PACKAGE_NAME", nupkg),
                     SetOutput("PACKAGE_PATH", Resolve(nupkg)) >>
                    \o (IF sym = E THEN E
                        ELSE IF exists
                        THEN << SetOutput("SYMBOLS_PACKAGE_NAME", sym),
                                SetOutput("SYMBOLS_PACKAGE_PATH", Resolve(sym)) >>
                        ELSE << Log("warning", <<"supkg [">> \o sym \o <<"] is not existed.">>) >>)
    IN  sign \o push
          \o (IF HasError(out)
              THEN PrintErrorAndExit(FirstError(out))
              ELSE outs \o PushEach(i, st, name, nupkgs, k + 1, files, o))

\* _tagCommit: both git commands run whatever the first one's exit status, and
\* the VERSION output follows.  The list of events.
TagCommit(i, v, o) ==
  LET TAG == ReplaceFirst(i.tagFormat, <<"*">>, Interp(v))
  IN  <<Info(<<"creating new tag ">> \o TAG)>>
        \o ExecuteInProcess(Words(<<"git", "tag">>) \o <<SP>> \o TAG, o.tagOk)
        \o ExecuteInProcess(Words(<<"git", "push", "origin">>) \o <<SP>> \o TAG,
                            o.tagPushOk)
        \o <<SetOutput("VERSION", TAG)>>

\* The first line _pushPackage logs: one per invocation of the publisher.
FoundNewVersion(v, name) ==
  Info(<<"found new version (">> \o Interp(v) \o <<") of ">> \o Interp(name))

\* The guard of lines 104-107: the publisher stops for want of a key.
KeyMissing(i, st) == st = "NuGet" /\ i.nugetKey = E

\* _pushPackage(version, name), given what the tools do.  The list of events;
\* a throw ends it.
PushPackage(i, w, st, srcName, v, name, o) ==
  LET head == <<FoundNewVersion(v, name)>>
  IN  IF KeyMissing(i, st)
      THEN head \o <<Log("warning", <<"NUGET_KEY not given">>)>>
      ELSE
        LET stale  == SelectSeq(w.stale, IsArtifact)
            del    == [f \in 1..Len(stale) |-> Unlink(stale[f])]
            build  == IF ~i.noBuild
                      THEN ExecuteInProcess(
                             Words(<<"dotnet", "build", "-c", "Release">>) \o <<SP>>
                               \o i.projectFile \o <<SP, "/p:Version=">> \o Interp(v),
                             TRUE)
                      ELSE E
            pack   == ExecuteInProcess(
                        Words(<<"dotnet", "pack">>) \o <<SP>> \o GeneratePackArgs(i, v)
                          \o <<SP>> \o i.projectFile \o <<SP, "-o", SP, ".">>,
                        TRUE)
            pkgs   == SelectSeq(o.files, EndsNupkg)
            nupkgs == SelectSeq(pkgs, EndsDotNupkg)
            loop   == PushEach(i, st, srcName, nupkgs, 1, o.files, o)
        IN  head \o <<Info(<<"NuGet Source: ">> \o i.nugetSource)>>
              \o del \o build \o pack
              \o <<Info(<<"Generated Package(s): ">> \o Join(pkgs, ", "))>>
              \o loop
              \o (IF ~Threw(loop) /\ i.tagCommit THEN TagCommit(i, v, o) ELSE E)

\* An outcome is told apart only by what the publisher reads of it: a push
\* that is not run (no such package, or an earlier push threw) prints nothing
\* of its own, and git is not run without TAG_COMMIT or after a throw.
Read(i, o) ==
  LET n         == Len(SelectSeq(o.files, EndsDotNupkg))
      failed(k) == \E j \in 1..(k - 1) : j <= n /\ HasError(o.pushOut[j])
  IN  /\ \A k \in 1..MaxPackages : (k > n \/ failed(k)) => o.pushOut[k] = PushOk
      /\ (~i.tagCommit \/ failed(n + 1)) => (o.tagOk /\ o.tagPushOk)

\* The outcomes to tell apart when the publisher is, or is not, called.
OutcomesOf(i, st, called) ==
  IF called /\ ~KeyMissing(i, st) THEN { o \in Outcomes : Read(i, o) } ELSE {NoOutcome}

\* ------------------------------------------------------- the HTTP callbacks

\* The test with `<= 0` for `< 0`: the first version of the list passes for
\* absent.
VersionAbsent_OffByOne(versions, v) == IndexOf(versions, v) <= 0

\* existingVersions.versions.indexOf(this.version) < 0
VersionAbsent(versions, v) == IndexOf(versions, v) < 0

\* res.statusCode == 200
IsOk(status) == status = "200"

\* The test against another status code.
IsNotFound_Gone(status) == status = "410"

\* res.statusCode == 404
IsNotFound(status) == status = "404"

\* The callback of https.get (lines 185-203).  The list of events; a throw
\* ends it.
HandleResponse(i, w, st, srcName, v, name, req, res, o) ==
  IF IsOk(res.status)
  THEN E
  ELSE IF IsNotFound(res.status)
  THEN <<Log("warning", <<"Url '">> \o req.url
               \o <<"' is not available now or was never uploaded">>)>>
         \o PushPackage(i, w, st, srcName, v, name, o)
  ELSE PrintErrorAndExit(<<"error: ", res.status, ": ">> \o res.message)

\* The 'end' listener (lines 190-196).  The list of events; a throw ends it.
HandleEnd(i, w, st, srcName, v, name, res, o) ==
  IF ~res.bodyOk
  THEN <<Throw(<<"SyntaxError">>)>>
  ELSE IF VersionAbsent(res.versions, v)
  THEN <<Info(<<"Current version ">> \o Interp(v)
                \o <<" is not found in NuGet. Versions:">>
                \o Join(res.versions, <<",">>))>>
         \o PushPackage(i, w, st, srcName, v, name, o)
  ELSE <<Info(<<"Found the version: ">>
                \o ReplaceFirst(i.nugetSource, <<"api.">>, E)
                \o <<"/packages/">> \o Interp(name) \o <<"/">> \o Interp(v))>>

\* Where a handler leaves the process: an uncaught throw ends it; the 200
\* branch of the callback leaves the 'end' listener waiting for the body.
After(ev, listening) ==
  IF Threw(ev) THEN "crashed" ELSE IF listening THEN "reading" ELSE "done"

OnResponse ==
  /\ pc = "waiting"
  /\ response.kind = "response"
  /\ \E o \in OutcomesOf(inp, sourceType, IsNotFound(response.status)) :
       \E ev \in {HandleResponse(inp, world, sourceType, sourceName, version,
                                 packageName, request, response, o)} :
         /\ events' = events \o ev
         /\ thrown' = ThrownOf(ev)
         /\ pc' = After(ev, IsOk(response.status))
  /\ UNCHANGED <<inp, world, sources, sourceName, sourceType, version,
                 packageName, request, response>>

OnEnd ==
  /\ pc = "reading"
  /\ \E o \in OutcomesOf(inp, sourceType,
                        response.bodyOk /\ VersionAbsent(response.versions, version)) :
       \E ev \in {HandleEnd(inp, world, sourceType, sourceName, version,
                            packageName, response, o)} :
         /\ events' = events \o ev
         /\ thrown' = ThrownOf(ev)
         /\ pc' = After(ev, FALSE)
  /\ UNCHANGED <<inp, world, sources, sourceName, sourceType, version,
                 packageName, request, response>>

\* The 'error' listener of the request (lines 204-206).
OnError ==
  /\ pc = "waiting"
  /\ response.kind = "error"
  /\ \E ev \in {PrintErrorAndExit(<<"error: ">> \o response.message)} :
       /\ events' = events \o ev
       /\ thrown' = ThrownOf(ev)
       /\ pc' = After(ev, FALSE)
  /\ UNCHANGED <<inp, world, sources, sourceName, sourceType, version,
                 packageName, request, response>>

Next ==
  \/ Constructor
  \/ Run
  \/ RegistryAnswers
  \/ OnResponse
  \/ OnEnd
  \/ OnError

Spec == Init /\ [][Next]_vars

\* ------------------------------------------------- what a run has done so far

EventAt(n) == events[n]

\* The positions of the events that satisfy P.
Where(P(_)) == { n \in 1..Len(events) : P(events[n]) }

IsExecOf(e, prefix) == e.k = "exec" /\ StartsWith(e.a, prefix)

IsPush(e) == IsExecOf(e, << <<"dotnet">>, <<"nuget">>, <<"push">> >>)

IsBuild(e) == IsExecOf(e, << <<"dotnet">>, <<"build">> >>)

IsPack(e) == IsExecOf(e, << <<"dotnet">>, <<"pack">> >>)

IsGitTag(e) == IsExecOf(e, << <<"git">>, <<"tag">> >>)

IsGitPush(e) == IsExecOf(e, << <<"git">>, <<"push">> >>)

IsOutput(e) == e.k = "output"

IsOutputOf(e, name) == e.k = "output" /\ e.a[1] = <<name>>

IsUnlink(e) == e.k = "unlink"

\* One "found new version" line is logged per call of _pushPackage.
IsPublisherEntry(e) == e.k = "info" /\ StartsWith(e.a[1], <<"found new version (">>)

PublisherCalls == Cardinality(Where(IsPublisherEntry))

IsFoundLog(e) == e.k = "info" /\ StartsWith(e.a[1], <<"Found the version: ">>)

FoundLogged == Where(IsFoundLog) # {}

\* Anything the publisher does past its key check.
IsPublisherEffect(e) ==
  IsUnlink(e) \/ IsBuild(e) \/ IsPack(e) \/ IsPush(e) \/ IsOutput(e)
    \/ IsGitTag(e) \/ IsGitPush(e)

NoPublisherEffect == Where(IsPublisherEffect) = {}

IsWarning(e) == e.k = "warning"

Answered == response.kind = "response"

\* The registry's list holds the resolved version.
Listed ==
  /\ Answered /\ response.status = "200" /\ response.bodyOk
  /\ version.tag = "string"
  /\ \E n \in 1..Len(response.versions) : response.versions[n] = version.s

\* The registry says the version is not there: 404, or a list without it.
NotListed ==
  /\ Answered
  /\ \/ response.status = "404"
     \/ /\ response.status = "200" /\ response.bodyOk
        /\ \A n \in 1..Len(response.versions) :
             version.tag = "undefined" \/ response.versions[n] # version.s

\* The process is over, normally or by an uncaught error.
Ended == pc \in {"done", "crashed"}

\* ------------------------------------------------------------------ claims

\* C1: when the registry answers 200 with a versions list that holds the
\* resolved version, the publisher is never invoked and nothing it does (unlink,
\* build, pack, push, output, tag) happens, and once the body is handled the
\* "found" line is logged and the run has ended normally; in no run are both
\* the "found" line logged and the publisher invoked.
C1_FoundNeverPublishes ==
  /\ Listed => (PublisherCalls = 0 /\ NoPublisherEffect)
  /\ (Listed /\ pc \notin {"waiting", "reading"}) => (pc = "done" /\ FoundLogged)
  /\ ~(FoundLogged /\ PublisherCalls > 0)

C1_Witness == Listed /\ pc = "done" /\ FoundLogged /\ PublisherCalls = 0

\* C2: once the registry has answered 404, or 200 with a list that lacks the
\* resolved version, the publisher is invoked exactly once.  The script runs
\* on one thread that takes whatever callback is ready, so "eventually" is: as
\* long as the run has not ended, the callback that leads to the publisher is
\* ready and the publisher has not been invoked yet; when the run has ended,
\* it has been invoked once.  In no run is it invoked twice.
C2_AbsentPublishesOnce ==
  /\ PublisherCalls <= 1
  /\ NotListed =>
       IF Ended
       THEN PublisherCalls = 1
       ELSE PublisherCalls = 0 /\ ENABLED (OnResponse \/ OnEnd)

C2_Witness == NotListed /\ Ended /\ PublisherCalls = 1 /\ response.status = "404"

\* C5: a status other than 200 and 404, or a transport error, ends the run in
\* an uncaught error whose message carries the status code and message (or the
\* transport error's message), and the publisher is never invoked.
OtherStatus == Answered /\ response.status \notin {"200", "404"}

TransportError == response.kind = "error"

C5_OtherStatusIsFatal ==
  /\ (OtherStatus \/ TransportError) => (PublisherCalls = 0 /\ NoPublisherEffect)
  /\ (OtherStatus /\ pc # "waiting") =>
       /\ pc = "crashed"
       /\ thrown = Str(<<"error: ", response.status, ": ">> \o response.message)
       /\ EventAt(Len(events) - 1) = Log("error", <<"cry: ">> \o thrown.s)
  /\ (TransportError /\ pc # "waiting") =>
       /\ pc = "crashed"
       /\ thrown = Str(<<"error: ">> \o response.message)
       /\ EventAt(Len(events) - 1) = Log("error", <<"cry: ">> \o thrown.s)

C5_Witness == OtherStatus /\ pc = "crashed" /\ response.status = "500"

\* C3: with the project file missing, a run with ERROR_CONTINUE set logs a
\* warning and ends without throwing and without publishing; a run without it
\* ends in an uncaught error.
ProjectMissing == inp.projectFile = E \/ ~world.projectExists

C3_MissingProjectObeysContinue ==
  (ProjectMissing /\ pc \notin {"ctor", "run"}) =>
    IF inp.errorContinue
    THEN thrown = Undefined /\ Where(IsWarning) # {} /\ PublisherCalls = 0
    ELSE thrown # Undefined /\ pc = "crashed"

\* C4: the version the request is sent for is a non-empty string, either the
\* one given or group 1 of a match on the version file; when there is no such
\* version the run fails before any request, build, pack or push.
Extracted == world.parsed.matched /\ Truthy(world.parsed.g1)

C4_VersionResolvedBeforeCheck ==
  /\ request.sent =>
       /\ Truthy(version)
       /\ \/ version = Str(inp.versionStatic)
          \/ Extracted /\ version = world.parsed.g1
  /\ (inp.versionStatic = E /\ ~Extracted /\ pc \notin {"ctor", "run"}) =>
       /\ pc = "crashed"
       /\ ~request.sent
       /\ NoPublisherEffect

\* C6: a publisher invoked for a registry that is not GPR-style, with no key
\* configured, warns and returns: it unlinks, builds, packs, pushes, outputs and
\* tags nothing, whether or not the source was listed at startup.
IsKeyWarning(e) == e = Log("warning", <<"NUGET_KEY not given">>)

C6_NoKeyNoPublish ==
  (PublisherCalls > 0 /\ ClassifySource(inp.nugetSource) = "NuGet" /\ inp.nugetKey = E) =>
    (Where(IsKeyWarning) # {} /\ NoPublisherEffect /\ thrown = Undefined)

\* C7: a push whose output contains "error" is handled under the
\* continue-on-error policy, with the first matching line as the message:
\* without ERROR_CONTINUE the run throws there, so no output, push or tag
\* follows the failed push; with it a warning is logged and the run does not
\* throw.
IsFailedPush(e) == IsPush(e) /\ ~e.ok

IsAfterPush(e) == e.k = "exec" \/ e.k = "output"

C7_PushErrorObeysContinue ==
  \A n \in Where(IsFailedPush) :
    IF inp.errorContinue
    THEN /\ thrown = Undefined
         /\ \E m \in Where(IsWarning) :
              m > n /\ EventAt(m) = Warning(FirstError(PushFailed))
    ELSE /\ thrown = Str(FirstError(PushFailed))
         /\ \A m \in Where(IsAfterPush) : m <= n

\* C8: with TAG_COMMIT, a failed `git tag` ends the run in an error with no
\* `git push` and no VERSION output after it, and a failed `git push` ends it
\* in an error with no VERSION output, whatever ERROR_CONTINUE says.
IsFailedGitTag(e) == IsGitTag(e) /\ ~e.ok

IsFailedGitPush(e) == IsGitPush(e) /\ ~e.ok

IsVersionOutput(e) == IsOutputOf(e, "VERSION")

C8_TagFailureIsFatal ==
  /\ Where(IsFailedGitTag) # {} =>
       (thrown # Undefined /\ Where(IsGitPush) = {} /\ Where(IsVersionOutput) = {})
  /\ Where(IsFailedGitPush) # {} =>
       (thrown # Undefined /\ Where(IsVersionOutput) = {})

\* C9: the argument vector of every push holds `--skip-duplicate` as an
\* argument of its own, holds `-k <key>` exactly when the registry is not
\* GPR-style, and holds `-n` exactly when symbols are not included.
HasArg(argv, arg) == \E j \in 1..Len(argv) : argv[j] = arg

\* `-k` followed by the key (by nothing of the key's when no key is configured).
HasKeyOption(argv, key) ==
  IF key = E
  THEN HasArg(argv, <<"-k">>)
  ELSE \E j \in 1..(Len(argv) - 1) : argv[j] = <<"-k">> /\ argv[j + 1] = key

C9_PushArguments ==
  \A n \in Where(IsPush) :
    LET argv == EventAt(n).a
    IN  /\ HasArg(argv, <<"--skip-duplicate">>)
        /\ HasKeyOption(argv, inp.nugetKey) <=> (sourceType # "GPR")
        /\ HasArg(argv, <<"-n">>) <=> ~inp.includeSymbols

\* C10: the registry kind a run works with is decided by NUGET_SOURCE alone:
\* a GPR URL gets the download-index lookup with basic auth and a push without
\* `-k`, any other URL the flat-container lookup with the User-Agent header and
\* a push with `-k`, whether or not the source was listed at startup.
IsGprUrl(url) == StartsWith(url, GprHost)

C10_KindFollowsUrl ==
  /\ request.sent =>
       IF IsGprUrl(inp.nugetSource)
       THEN /\ Includes(request.url, <<"/download/">>)
            /\ request.auth = inp.githubUser \o <<":">> \o inp.nugetKey
       ELSE /\ Includes(request.url, <<"/v3-flatcontainer/">>)
            /\ request.userAgent
            /\ request.auth = E
  /\ \A n \in Where(IsPush) :
       HasArg(EventAt(n).a, <<"-k">>) <=> ~IsGprUrl(inp.nugetSource)

====
